---- MODULE Spec2Model ----
(***************************************************************************)
(* Model of the CFBD extraction pipeline: the API client (make_request),  *)
(* the five resource generators of sources/cfbd.py with their inline      *)
(* record flattening, the source aggregator and the run modes of          *)
(* load_oklahoma.py.                                                      *)
(***************************************************************************)
EXTENDS Integers, Sequences, FiniteSets, TLC

\* ------------------------------------------------------------------------
\* Bounds of the model
\* ------------------------------------------------------------------------

\* At most this many source keys are removed from / nulled in a raw record.
MaxMissing == 1

\* At most this many swallowed (HTTP status) failures in one generator run.
MaxFailures == 2

\* The seasons the inputs are drawn from: one before the transfer-portal
\* floor and two from it on.
Years == 2020 .. 2022

Teams == {"Oklahoma", "Texas"}

\* ------------------------------------------------------------------------
\* Program constants
\* ------------------------------------------------------------------------

\* Regular-season weeks are range(1, 16).
LastWeek == 15

\* range(max(start_year, 2021), end_year + 1)
FirstPortalYear == 2021

\* Python's None / JSON null.  Scalars are integers, so None is one too.
None == 0 - 1

\* ------------------------------------------------------------------------
\* Record flattening: one row <<output field, source key, access>> per line
\* of each yielded dict literal.  access is
\*   "item"    raw[key]                                (KeyError when absent)
\*   "get"     raw.get(key)
\*   "minutes" raw.get(key, {}).get("minutes") if raw.get(key) else None
\*   "seconds" raw.get(key, {}).get("seconds") if raw.get(key) else None
\* ------------------------------------------------------------------------

GameFields ==
    << <<"id", "id", "item">>,
       <<"season", "season", "item">>,
       <<"week", "week", "item">>,
       <<"season_type", "seasonType", "get">>,
       <<"start_date", "startDate", "get">>,
       <<"completed", "completed", "get">>,
       <<"neutral_site", "neutralSite", "get">>,
       <<"conference_game", "conferenceGame", "get">>,
       <<"attendance", "attendance", "get">>,
       <<"venue_id", "venueId", "get">>,
       <<"venue", "venue", "get">>,
       <<"home_id", "homeId", "get">>,
       <<"home_team", "homeTeam", "get">>,
       <<"home_conference", "homeConference", "get">>,
       <<"home_points", "homePoints", "get">>,
       <<"home_line_scores", "homeLineScores", "get">>,
       <<"home_postgame_win_prob", "homePostgameWinProbability", "get">>,
       <<"home_pregame_elo", "homePregameElo", "get">>,
       <<"home_postgame_elo", "homePostgameElo", "get">>,
       <<"away_id", "awayId", "get">>,
       <<"away_team", "awayTeam", "get">>,
       <<"away_conference", "awayConference", "get">>,
       <<"away_points", "awayPoints", "get">>,
       <<"away_line_scores", "awayLineScores", "get">>,
       <<"away_postgame_win_prob", "awayPostgameWinProbability", "get">>,
       <<"away_pregame_elo", "awayPregameElo", "get">>,
       <<"away_postgame_elo", "awayPostgameElo", "get">>,
       <<"excitement_index", "excitementIndex", "get">> >>

DriveFields ==
    << <<"id", "id", "get">>,
       <<"game_id", "gameId", "get">>,
       <<"offense", "offense", "get">>,
       <<"offense_conference", "offenseConference", "get">>,
       <<"defense", "defense", "get">>,
       <<"defense_conference", "defenseConference", "get">>,
       <<"drive_number", "driveNumber", "get">>,
       <<"scoring", "scoring", "get">>,
       <<"start_period", "startPeriod", "get">>,
       <<"start_yardline", "startYardline", "get">>,
       <<"start_yards_to_goal", "startYardsToGoal", "get">>,
       <<"start_time_minutes", "startTime", "minutes">>,
       <<"start_time_seconds", "startTime", "seconds">>,
       <<"end_period", "endPeriod", "get">>,
       <<"end_yardline", "endYardline", "get">>,
       <<"end_yards_to_goal", "endYardsToGoal", "get">>,
       <<"end_time_minutes", "endTime", "minutes">>,
       <<"end_time_seconds", "endTime", "seconds">>,
       <<"plays", "plays", "get">>,
       <<"yards", "yards", "get">>,
       <<"drive_result", "driveResult", "get">>,
       <<"is_home_offense", "isHomeOffense", "get">>,
       <<"elapsed_minutes", "elapsed", "minutes">>,
       <<"elapsed_seconds", "elapsed", "seconds">> >>

\* The dict literal of the weekly pull.
PlayFields ==
    << <<"id", "id", "get">>,
       <<"game_id", "gameId", "get">>,
       <<"drive_id", "driveId", "get">>,
       <<"drive_number", "driveNumber", "get">>,
       <<"play_number", "playNumber", "get">>,
       <<"offense", "offense", "get">>,
       <<"offense_conference", "offenseConference", "get">>,
       <<"defense", "defense", "get">>,
       <<"defense_conference", "defenseConference", "get">>,
       <<"home", "home", "get">>,
       <<"away", "away", "get">>,
       <<"offense_score", "offenseScore", "get">>,
       <<"defense_score", "defenseScore", "get">>,
       <<"period", "period", "get">>,
       <<"clock_minutes", "clock", "minutes">>,
       <<"clock_seconds", "clock", "seconds">>,
       <<"yard_line", "yardLine", "get">>,
       <<"down", "down", "get">>,
       <<"distance", "distance", "get">>,
       <<"yards_gained", "yardsGained", "get">>,
       <<"play_type", "playType", "get">>,
       <<"play_text", "playText", "get">>,
       <<"ppa", "ppa", "get">>,
       <<"scoring", "scoring", "get">>,
       <<"wallclock", "wallclock", "get">> >>

\* The second copy of the dict literal, used by the postseason pull.
PostseasonPlayFields ==
    << <<"id", "id", "get">>,
       <<"game_id", "gameId", "get">>,
       <<"drive_id", "driveId", "get">>,
       <<"drive_number", "driveNumber", "get">>,
       <<"play_number", "playNumber", "get">>,
       <<"offense", "offense", "get">>,
       <<"offense_conference", "offenseConference", "get">>,
       <<"defense", "defense", "get">>,
       <<"defense_conference", "defenseConference", "get">>,
       <<"home", "home", "get">>,
       <<"away", "away", "get">>,
       <<"offense_score", "offenseScore", "get">>,
       <<"defense_score", "defenseScore", "get">>,
       <<"period", "period", "get">>,
       <<"clock_minutes", "clock", "minutes">>,
       <<"clock_seconds", "clock", "seconds">>,
       <<"yard_line", "yardLine", "get">>,
       <<"down", "down", "get">>,
       <<"distance", "distance", "get">>,
       <<"yards_gained", "yardsGained", "get">>,
       <<"play_type", "playType", "get">>,
       <<"play_text", "playText", "get">>,
       <<"ppa", "ppa", "get">>,
       <<"scoring", "scoring", "get">>,
       <<"wallclock", "wallclock", "get">> >>

RecruitFields ==
    << <<"id", "id", "get">>,
       <<"athlete_id", "athleteId", "get">>,
       <<"recruit_type", "recruitType", "get">>,
       <<"year", "year", "get">>,
       <<"ranking", "ranking", "get">>,
       <<"name", "name", "get">>,
       <<"school", "school", "get">>,
       <<"committed_to", "committedTo", "get">>,
       <<"position", "position", "get">>,
       <<"height", "height", "get">>,
       <<"weight", "weight", "get">>,
       <<"stars", "stars", "get">>,
       <<"rating", "rating", "get">>,
       <<"city", "city", "get">>,
       <<"state_province", "stateProvince", "get">>,
       <<"country", "country", "get">> >>

TransferFields ==
    << <<"season", "season", "get">>,
       <<"first_name", "firstName", "get">>,
       <<"last_name", "lastName", "get">>,
       <<"position", "position", "get">>,
       <<"origin", "origin", "get">>,
       <<"destination", "destination", "get">>,
       <<"transfer_date", "transferDate", "get">>,
       <<"rating", "rating", "get">>,
       <<"stars", "stars", "get">>,
       <<"eligibility", "eligibility", "get">> >>

\* The dict literal a flattener evaluates.
FieldsOf(flattener) ==
    CASE flattener = "games" -> GameFields
      [] flattener = "drives" -> DriveFields
      [] flattener = "plays" -> PlayFields
      [] flattener = "plays_postseason" -> PostseasonPlayFields
      [] flattener = "recruiting" -> RecruitFields
      [] flattener = "transfers" -> TransferFields

Flatteners ==
    {"games", "drives", "plays", "plays_postseason", "recruiting", "transfers"}

OutNames(fields) == {fields[i][1] : i \in DOMAIN fields}

SrcKeys(fields) == {fields[i][2] : i \in DOMAIN fields}

NestedKeys(fields) ==
    {fields[i][2] : i \in {j \in DOMAIN fields : fields[j][3] \in {"minutes", "seconds"}}}

\* A raw record maps the keys present in it to their values.  A scalar is an
\* integer (None for JSON null); the value under a nested key is
\* [isNull |-> BOOLEAN, obj |-> the object's present sub-keys and values].

\* dict.get(key): the value, or None when the key is absent.
Get(raw, key) == IF key \in DOMAIN raw THEN raw[key] ELSE None

\* Truth value of raw.get(key) for a nested key: None and {} are falsy.
Truthy(raw, key) ==
    /\ key \in DOMAIN raw
    /\ ~raw[key].isNull
    /\ DOMAIN raw[key].obj # {}

\* A variant that tests the sub-value instead of the object.
GetNestedTruthySub(raw, key, sub) ==
    IF Truthy(raw, key) /\ sub \in DOMAIN raw[key].obj /\ raw[key].obj[sub] # 0
    THEN raw[key].obj[sub]
    ELSE None

\* raw.get(key, {}).get(sub) if raw.get(key) else None
GetNested(raw, key, sub) ==
    IF Truthy(raw, key)
    THEN IF sub \in DOMAIN raw[key].obj THEN raw[key].obj[sub] ELSE None
    ELSE None

\* The value one line of the dict literal assigns.
FieldValue(row, raw) ==
    CASE row[3] = "item" -> raw[row[2]]
      [] row[3] = "get" -> Get(raw, row[2])
      [] OTHER -> GetNested(raw, row[2], row[3])

\* The lines of the dict literal that raise: raw[key] with key absent.
Raises(fields, raw) ==
    {i \in DOMAIN fields : fields[i][3] = "item" /\ fields[i][2] \notin DOMAIN raw}

\* A variant that leaves out the output fields whose source key is absent.
FlattenOmitting(fields, raw) ==
    IF Raises(fields, raw) # {}
    THEN [exc |-> "KeyError", rec |-> <<>>]
    ELSE [exc |-> "none",
          rec |-> [o \in {fields[i][1] : i \in {j \in DOMAIN fields : fields[j][2] \in DOMAIN raw}} |->
                     FieldValue(fields[CHOOSE i \in DOMAIN fields : fields[i][1] = o], raw)]]

\* Evaluating the dict literal over one raw record: the flat record, or the
\* KeyError of the first mandatory lookup that fails.
Flatten(fields, raw) ==
    IF Raises(fields, raw) # {}
    THEN [exc |-> "KeyError", rec |-> <<>>]
    ELSE [exc |-> "none",
          rec |-> [o \in OutNames(fields) |->
                     FieldValue(fields[CHOOSE i \in DOMAIN fields : fields[i][1] = o], raw)]]

\* ------------------------------------------------------------------------
\* Upstream data
\* ------------------------------------------------------------------------

\* The value the upstream record number ident carries under the source key
\* of row i: distinct for every record and every row.
ScalarValue(ident, i) == ident * 100 + i

\* A complete upstream record: every source key of the dict literal present,
\* nested objects carrying both sub-keys.
FullRaw(fields, ident) ==
    [k \in SrcKeys(fields) |->
        IF k \in NestedKeys(fields)
        THEN [isNull |-> FALSE, obj |-> [minutes |-> 0, seconds |-> 30]]
        ELSE ScalarValue(ident, CHOOSE i \in DOMAIN fields : fields[i][2] = k)]

Restrict(f, S) == [x \in S |-> f[x]]

\* FullRaw with the keys of `missing` removed, the keys of `nulled` set to
\* null and every nested object cut down to the sub-keys of `shape`.
RawRecord(fields, ident, missing, nulled, shape) ==
    LET full == FullRaw(fields, ident)
    IN  [k \in SrcKeys(fields) \ missing |->
            IF k \in NestedKeys(fields)
            THEN [isNull |-> k \in nulled, obj |-> Restrict(full[k].obj, shape)]
            ELSE IF k \in nulled THEN None ELSE full[k]]

\* ------------------------------------------------------------------------
\* State
\* ------------------------------------------------------------------------

VARIABLES
    flattener,      \* which dict literal is evaluated
    raw,            \* the upstream record it is evaluated over
    result,         \* [exc, rec]: exc = "pending" before the evaluation
    resource,       \* the generator being iterated
    team,           \* its team argument ("" for transfers_resource)
    start_year,     \* its start_year argument
    end_year,       \* its end_year argument
    has_key,        \* CFBD_API_KEY is set
    year,           \* loop variable of the year loop (next year to pull)
    week,           \* plays only: next week to pull, LastWeek + 1 = postseason
    status,         \* "running", "done" (exhausted) or "raised"
    exc,            \* the exception that left the generator, "none" if none
    calls,          \* the HTTP requests issued, in order
    log,            \* how each make_request call ended, in order
    out,            \* the records yielded, in order
    sink,           \* rows of the destination table
    pass,           \* number of the synchronization run
    first_sink,     \* the destination table as the first run left it
    argv,           \* the mode token of the command line ("" when omitted)
    TEAM,           \* configuration of load_oklahoma.py
    START_YEAR,
    END_YEAR,
    now_year,       \* datetime.datetime.now().year
    submitted,      \* the generator invocations handed to pipeline.run
    exit_code       \* "none" until main returns or exits

normVars == <<flattener, raw, result>>
runVars == <<resource, team, start_year, end_year, has_key, year, week, status, exc, calls, log, out>>
sinkVars == <<sink, pass, first_sink>>
modeVars == <<argv, TEAM, START_YEAR, END_YEAR, now_year, submitted, exit_code>>
vars == <<normVars, runVars, sinkVars, modeVars>>

Pending == [exc |-> "pending", rec |-> <<>>]

NormIdle == flattener = "" /\ raw = <<>> /\ result = Pending

RunIdle ==
    /\ resource = "" /\ team = "" /\ start_year = 0 /\ end_year = 0
    /\ has_key = TRUE /\ year = 0 /\ week = 0 /\ status = "idle" /\ exc = "none"
    /\ calls = <<>> /\ log = <<>> /\ out = <<>>

SinkIdle == sink = <<>> /\ pass = 0 /\ first_sink = <<>>

ModeIdle ==
    /\ argv = "" /\ TEAM = "" /\ START_YEAR = 0 /\ END_YEAR = 0 /\ now_year = 0
    /\ submitted = <<>> /\ exit_code = "idle"

\* ------------------------------------------------------------------------
\* Specification of the flatteners: one upstream record, one evaluation
\* ------------------------------------------------------------------------

Shapes == SUBSET {"minutes", "seconds"}

\* The subsets of S of at most n elements.
RECURSIVE SubsetsUpTo(_, _)
SubsetsUpTo(S, n) ==
    IF n = 0
    THEN {{}}
    ELSE LET smaller == SubsetsUpTo(S, n - 1)
         IN  smaller \cup {p \cup {x} : p \in smaller, x \in S}

InitNorm ==
    /\ flattener \in Flatteners
    /\ \E changed \in SubsetsUpTo(SrcKeys(FieldsOf(flattener)), MaxMissing) :
       \E missing \in SUBSET changed :
       \E shape \in Shapes :
          raw = RawRecord(FieldsOf(flattener), 1, missing, changed \ missing, shape)
    /\ result = Pending
    /\ RunIdle /\ SinkIdle /\ ModeIdle

FlattenStep(name) ==
    /\ flattener = name
    /\ result = Pending
    /\ result' = Flatten(FieldsOf(name), raw)
    /\ UNCHANGED <<flattener, raw, runVars, sinkVars, modeVars>>

flatten_game == FlattenStep("games")
flatten_drive == FlattenStep("drives")
flatten_play == FlattenStep("plays")
flatten_postseason_play == FlattenStep("plays_postseason")
flatten_recruit == FlattenStep("recruiting")
flatten_transfer == FlattenStep("transfers")

NextNorm ==
    \/ flatten_game
    \/ flatten_drive
    \/ flatten_play
    \/ flatten_postseason_play
    \/ flatten_recruit
    \/ flatten_transfer

SpecNorm == InitNorm /\ [][NextNorm]_vars

\* ------------------------------------------------------------------------
\* API client
\* ------------------------------------------------------------------------

\* How the network answers one request: a decoded JSON list, no answer within
\* the timeout, a non-success status, or a body that is not JSON.
NetOutcomes == {"ok", "timeout", "status", "decode"}

\* get_api_key: the exception it raises ("none" when the key is set).
get_api_key(key_set) == IF key_set THEN "none" ELSE "ValueError"

\* make_request: whether the GET was sent and the exception that leaves the
\* call.  The header is built, and get_api_key called, before requests.get.
make_request(key_set, net) ==
    IF get_api_key(key_set) # "none"
    THEN [sent |-> FALSE, exc |-> get_api_key(key_set)]
    ELSE [sent |-> TRUE,
          exc |-> CASE net = "timeout" -> "Timeout"
                    [] net = "status" -> "HTTPError"
                    [] net = "decode" -> "JSONDecodeError"
                    [] OTHER -> "none"]

\* An except clause that catches everything.
ExceptAny(e) == TRUE

\* An except clause that catches nothing.
ExceptNothing(e) == FALSE

\* `except requests.exceptions.HTTPError` around the weekly pull.  Timeout and
\* JSONDecodeError are RequestExceptions but not HTTPErrors; ValueError is
\* neither.
plays_week_except(e) == e = "HTTPError"

\* ... around the postseason pull
plays_postseason_except(e) == e = "HTTPError"

\* ... in recruiting_resource
recruiting_except(e) == e = "HTTPError"

\* ... in transfers_resource
transfers_except(e) == e = "HTTPError"

\* games_resource and drives_resource have no try statement.
games_except(e) == FALSE

drives_except(e) == FALSE

\* ------------------------------------------------------------------------
\* Responses of the simulated API
\* ------------------------------------------------------------------------

\* The slot of a call within its year: the week for a weekly /plays pull,
\* LastWeek + 1 for the postseason pull, 0 for the per-year endpoints.
PostseasonSlot == LastWeek + 1

\* Number of the idx-th record of the response to the call (y, slot).
Ident(y, slot, idx) == ((y - 2000) * 100 + slot) * 10 + idx

IdentYear(ident) == 2000 + (ident \div 1000)
IdentSlot(ident) == (ident \div 10) % 100
IdentIdx(ident) == ident % 10

\* How many records the call (y, slot) returns: none, one or two.
Count(y, slot) == (y + slot) % 3

\* The decoded JSON list of a successful call.
Response(fields, y, slot) ==
    [idx \in 1 .. Count(y, slot) |-> FullRaw(fields, Ident(y, slot, idx))]

\* ------------------------------------------------------------------------
\* Resource generators
\* ------------------------------------------------------------------------

Resources == {"games", "drives", "plays", "recruiting", "transfers"}

\* team: str = "Oklahoma"
DefaultTeam == "Oklahoma"

Max(a, b) == IF a >= b THEN a ELSE b

\* A year loop that starts at start_year whatever the resource.
UnclampedFirstYear(res, start) == start

\* First value of the year loop: range(start_year, end_year + 1), for
\* transfers range(max(start_year, 2021), end_year + 1).
FirstYear(res, start) ==
    IF res = "transfers" THEN Max(start, FirstPortalYear) ELSE start

\* The request a generator issues.  week = 0, seasonType = "" and team = ""
\* stand for a parameter that is not sent.
Request(endpoint, y, w, season_type, tm) ==
    [endpoint |-> endpoint, year |-> y, week |-> w, seasonType |-> season_type, team |-> tm]

\* A variant that yields the records of a response last to first.
YieldedReversed(fields, response) ==
    [i \in DOMAIN response |-> Flatten(fields, response[Len(response) + 1 - i]).rec]

\* for x in response: yield {...}
Yielded(fields, response) ==
    [i \in DOMAIN response |-> Flatten(fields, response[i]).rec]

Failures == Cardinality({i \in DOMAIN log : log[i].exc # "none"})

\* The outcomes the simulated API may give the next call.
NextOutcomes ==
    IF ~has_key THEN {"ok"}
    ELSE IF Failures < MaxFailures THEN NetOutcomes ELSE {"ok"}

\* One make_request call of a generator and what follows it in the loop body:
\* the yields on success, `continue` when caught is TRUE, the exception
\* leaving the generator otherwise.  Returns the new values of
\* calls, log, out, status, exc and whether the loop goes on.
Pull(request, fields, slot, caught, net) ==
    LET r == make_request(has_key, net)
    IN  [calls |-> IF r.sent THEN Append(calls, request) ELSE calls,
         log |-> Append(log, [year |-> request.year, slot |-> slot, exc |-> r.exc]),
         out |-> IF r.exc = "none" THEN out \o Yielded(fields, Response(fields, request.year, slot)) ELSE out,
         goes_on |-> r.exc = "none" \/ caught,
         exc |-> IF r.exc = "none" \/ caught THEN "none" ELSE r.exc]

\* The new state of the generator after a pull; next_year and next_week are
\* the loop variables if the loop goes on.
AfterPull(p, next_year, next_week) ==
    /\ calls' = p.calls
    /\ log' = p.log
    /\ out' = p.out
    /\ exc' = p.exc
    /\ status' = IF p.goes_on THEN "running" ELSE "raised"
    /\ year' = IF p.goes_on THEN next_year ELSE year
    /\ week' = IF p.goes_on THEN next_week ELSE week
    /\ UNCHANGED <<resource, team, start_year, end_year, has_key>>

\* The year loop is exhausted: the generator returns.
Exhausted ==
    /\ year > end_year
    /\ status' = "done"
    /\ UNCHANGED <<resource, team, start_year, end_year, has_key, year, week, exc, calls, log, out>>

\* Whether the loop body of a per-year generator catches exception e.
Caught(res, e) ==
    CASE res = "games" -> games_except(e)
      [] res = "drives" -> drives_except(e)
      [] res = "recruiting" -> recruiting_except(e)
      [] res = "transfers" -> transfers_except(e)

\* One iteration of a per-year generator.
YearIteration(res, endpoint, fields) ==
    /\ resource = res
    /\ status = "running"
    /\ \/ Exhausted
       \/ /\ year <= end_year
          /\ \E net \in NextOutcomes :
                LET r == make_request(has_key, net)
                IN  AfterPull(Pull(Request(endpoint, year, 0, "", team), fields, 0, Caught(res, r.exc), net),
                              year + 1, week)

games_iteration == YearIteration("games", "/games", GameFields)

drives_iteration == YearIteration("drives", "/drives", DriveFields)

recruiting_iteration ==
    YearIteration("recruiting", "/recruiting/players", RecruitFields)

transfers_iteration ==
    YearIteration("transfers", "/player/portal", TransferFields)

\* One iteration of the week loop of plays_resource (or the end of the year
\* loop, which is tested before the week loop is entered).
plays_week_iteration ==
    /\ resource = "plays"
    /\ status = "running"
    /\ \/ Exhausted
       \/ /\ year <= end_year
          /\ week <= LastWeek
          /\ \E net \in NextOutcomes :
                LET r == make_request(has_key, net)
                IN  AfterPull(Pull(Request("/plays", year, week, "", team), PlayFields, week,
                                   plays_week_except(r.exc), net),
                              year, week + 1)

\* The postseason pull that follows the week loop.
plays_postseason_iteration ==
    /\ resource = "plays"
    /\ status = "running"
    /\ year <= end_year
    /\ week = PostseasonSlot
    /\ \E net \in NextOutcomes :
          LET r == make_request(has_key, net)
          IN  AfterPull(Pull(Request("/plays", year, 0, "postseason", team), PostseasonPlayFields,
                             PostseasonSlot, plays_postseason_except(r.exc), net),
                        year + 1, 1)

\* ------------------------------------------------------------------------
\* Specification of one generator invocation iterated to its end
\* ------------------------------------------------------------------------

InitRun ==
    /\ resource \in Resources
    /\ team = IF resource = "transfers" THEN "" ELSE DefaultTeam
    /\ start_year \in Years
    /\ end_year \in Years
    /\ has_key \in BOOLEAN
    /\ year = FirstYear(resource, start_year)
    /\ week = 1
    /\ status = "running"
    /\ exc = "none"
    /\ calls = <<>> /\ log = <<>> /\ out = <<>>
    /\ NormIdle /\ SinkIdle /\ ModeIdle

games_resource == games_iteration /\ UNCHANGED <<normVars, sinkVars, modeVars>>
drives_resource == drives_iteration /\ UNCHANGED <<normVars, sinkVars, modeVars>>
plays_resource_week == plays_week_iteration /\ UNCHANGED <<normVars, sinkVars, modeVars>>
plays_resource_postseason == plays_postseason_iteration /\ UNCHANGED <<normVars, sinkVars, modeVars>>
recruiting_resource == recruiting_iteration /\ UNCHANGED <<normVars, sinkVars, modeVars>>
transfers_resource == transfers_iteration /\ UNCHANGED <<normVars, sinkVars, modeVars>>

NextRun ==
    \/ games_resource
    \/ drives_resource
    \/ plays_resource_week
    \/ plays_resource_postseason
    \/ recruiting_resource
    \/ transfers_resource

SpecRun == InitRun /\ [][NextRun]_vars

\* ------------------------------------------------------------------------
\* Destination table of the games resource, and a repeated games-only run
\* ------------------------------------------------------------------------

\* write_disposition="append": every yielded record becomes a new row.
games_write_append(table, rec) == Append(table, rec)

\* write_disposition="merge", primary_key="id": the row with the record's id
\* is overwritten, a record with a new id becomes a new row.
games_write(table, rec) ==
    IF \E i \in DOMAIN table : table[i]["id"] = rec["id"]
    THEN [i \in DOMAIN table |-> IF table[i]["id"] = rec["id"] THEN rec ELSE table[i]]
    ELSE Append(table, rec)

\* The table after the records of a sequence have been written in order.
RECURSIVE WriteAll(_, _)
WriteAll(table, recs) ==
    IF recs = <<>>
    THEN table
    ELSE WriteAll(games_write(table, Head(recs)), Tail(recs))

InitResync ==
    /\ resource = "games"
    /\ team = DefaultTeam
    /\ start_year \in Years
    /\ end_year \in Years
    /\ has_key \in BOOLEAN
    /\ year = FirstYear(resource, start_year)
    /\ week = 1
    /\ status = "running"
    /\ exc = "none"
    /\ calls = <<>> /\ log = <<>> /\ out = <<>>
    /\ sink = <<>> /\ pass = 1 /\ first_sink = <<>>
    /\ NormIdle /\ ModeIdle

\* pipeline.run(games_resource(...)): one iteration of the generator, its
\* records written to the destination table.
load_games_only_step ==
    /\ games_iteration
    /\ sink' = WriteAll(sink, SubSeq(out', Len(out) + 1, Len(out')))
    /\ first_sink' = IF pass = 1 /\ status' = "done" THEN sink' ELSE first_sink
    /\ UNCHANGED <<pass, normVars, modeVars>>

\* The second run: a fresh generator over the same upstream data, the same
\* destination table.
load_games_only_again ==
    /\ resource = "games"
    /\ status = "done"
    /\ pass = 1
    /\ pass' = 2
    /\ year' = FirstYear(resource, start_year)
    /\ status' = "running"
    /\ calls' = <<>> /\ log' = <<>> /\ out' = <<>>
    /\ UNCHANGED <<resource, team, start_year, end_year, has_key, week, exc>>
    /\ UNCHANGED <<sink, first_sink, normVars, modeVars>>

NextResync ==
    \/ load_games_only_step
    \/ load_games_only_again

SpecResync == InitResync /\ [][NextResync]_vars

\* ------------------------------------------------------------------------
\* Source aggregator and run modes
\* ------------------------------------------------------------------------

\* A generator invocation handed to pipeline.run.
Invocation(res, t, s, e) ==
    [resource |-> res, team |-> t, start_year |-> s, end_year |-> e]

cfbd_source(t, s, e) ==
    << Invocation("games", t, s, e),
       Invocation("drives", t, s, e),
       Invocation("plays", t, s, e),
       Invocation("recruiting", t, s, e),
       Invocation("transfers", "", s, e) >>

\* A variant that pulls the whole source for the current year.
IncrementalWholeSource(t, current_year) == cfbd_source(t, current_year, current_year)

\* What load_incremental hands to pipeline.run.
IncrementalResources(t, current_year) ==
    << Invocation("games", t, current_year, current_year),
       Invocation("drives", t, current_year, current_year),
       Invocation("plays", t, current_year, current_year) >>

\* What load_games_only hands to pipeline.run.
GamesOnlyResources(t, s, e) == << Invocation("games", t, s, e) >>

ModeTokens == {"", "--full", "--incremental", "--games-only", "--weekly"}

InitMode ==
    /\ argv \in ModeTokens
    /\ TEAM \in Teams
    /\ START_YEAR \in Years
    /\ END_YEAR \in Years
    /\ now_year \in Years
    /\ submitted = <<>>
    /\ exit_code = "none"
    /\ NormIdle /\ RunIdle /\ SinkIdle

Returns(resources) ==
    /\ exit_code = "none"
    /\ submitted' = resources
    /\ exit_code' = "returned"
    /\ UNCHANGED <<argv, TEAM, START_YEAR, END_YEAR, now_year, normVars, runVars, sinkVars>>

\* main with --full or without a mode token
load_full ==
    /\ argv \in {"", "--full"}
    /\ Returns(cfbd_source(TEAM, START_YEAR, END_YEAR))

\* main with --incremental
load_incremental ==
    /\ argv = "--incremental"
    /\ Returns(IncrementalResources(TEAM, now_year))

\* main with --games-only
load_games_only ==
    /\ argv = "--games-only"
    /\ Returns(GamesOnlyResources(TEAM, START_YEAR, END_YEAR))

\* main with any other token: usage, sys.exit(1)
main_unknown_option ==
    /\ argv \notin {"", "--full", "--incremental", "--games-only"}
    /\ exit_code = "none"
    /\ exit_code' = "exit 1"
    /\ UNCHANGED <<argv, TEAM, START_YEAR, END_YEAR, now_year, submitted, normVars, runVars, sinkVars>>

NextMode ==
    \/ load_full
    \/ load_incremental
    \/ load_games_only
    \/ main_unknown_option

SpecMode == InitMode /\ [][NextMode]_vars

\* ------------------------------------------------------------------------
\* Properties of the flatteners (SpecNorm)
\* ------------------------------------------------------------------------

Flattened == flattener \in Flatteners /\ result # Pending

AbsentKeys == SrcKeys(FieldsOf(flattener)) \ DOMAIN raw

\* The output fields fed by source key k.
OutputsOf(k) ==
    {FieldsOf(flattener)[i][1] :
        i \in {j \in DOMAIN FieldsOf(flattener) : FieldsOf(flattener)[j][2] = k}}

\* The record has the full field set of its entity and null in the fields
\* whose source key is absent.
CompleteWithNulls ==
    /\ result.exc = "none"
    /\ DOMAIN result.rec = OutNames(FieldsOf(flattener))
    /\ \A k \in AbsentKeys : \A o \in OutputsOf(k) : result.rec[o] = None

\* C9 as stated: whichever single source key is absent, flattening does not
\* fail and yields the entity's full field set with null in the field of the
\* absent key.
C9_TotalOverEveryKey == Flattened => CompleteWithNulls

\* The keys games_resource reads with game[...] instead of game.get(...).
GameRequiredKeys == {"id", "season", "week"}

RequiredAbsent == flattener = "games" /\ AbsentKeys \cap GameRequiredKeys # {}

\* C9 amended: flattening is total and schema-complete (absent key -> null
\* field, full field set) for every absent source key except id, season and
\* week of a Game, whose absence makes the flattening fail with KeyError.
C9_TotalOverOptionalKeys ==
    Flattened =>
        IF RequiredAbsent THEN result.exc = "KeyError" ELSE CompleteWithNulls

C9_Witness ==
    /\ Flattened
    /\ flattener = "recruiting"
    /\ AbsentKeys = {"athleteId"}
    /\ result.exc = "none"
    /\ result.rec["athlete_id"] = None

\* The nested source objects and the two fields derived from each.
NestedOutputs ==
    [drives |-> {<<"startTime", "start_time_minutes", "start_time_seconds">>,
                 <<"endTime", "end_time_minutes", "end_time_seconds">>,
                 <<"elapsed", "elapsed_minutes", "elapsed_seconds">>},
     plays |-> {<<"clock", "clock_minutes", "clock_seconds">>},
     plays_postseason |-> {<<"clock", "clock_minutes", "clock_seconds">>}]

\* What a present, non-null object holds under a sub-key (null if nothing).
SubValue(k, sub) == IF sub \in DOMAIN raw[k].obj THEN raw[k].obj[sub] ELSE None

\* C10: a Drive's startTime/endTime/elapsed or a Play's clock (weekly and
\* postseason pull) that is absent or null gives null for both derived
\* fields and no lookup failure; a present object gives its minutes and
\* seconds values unchanged.
C10_NestedFieldSafety ==
    (Flattened /\ flattener \in DOMAIN NestedOutputs) =>
        /\ result.exc = "none"
        /\ \A t \in NestedOutputs[flattener] :
              IF t[1] \notin DOMAIN raw \/ raw[t[1]].isNull
              THEN result.rec[t[2]] = None /\ result.rec[t[3]] = None
              ELSE /\ result.rec[t[2]] = SubValue(t[1], "minutes")
                   /\ result.rec[t[3]] = SubValue(t[1], "seconds")

C10_Witness ==
    /\ Flattened
    /\ flattener = "drives"
    /\ "elapsed" \notin DOMAIN raw
    /\ result.exc = "none"
    /\ result.rec["elapsed_minutes"] = None
    /\ result.rec["elapsed_seconds"] = None
    /\ result.rec["start_time_minutes"] = 0
    /\ result.rec["start_time_seconds"] = 30

\* ------------------------------------------------------------------------
\* Properties of one generator invocation (SpecRun)
\* ------------------------------------------------------------------------

\* The upstream record a yielded record was made from: every value of a
\* record carries the number of its upstream record.
RecIdent(rec) == rec[IF resource = "transfers" THEN "season" ELSE "id"] \div 100

\* The upstream records behind the yielded records whose call was (y, slot).
YieldedFrom(y, slot) ==
    {RecIdent(out[i]) : i \in {j \in DOMAIN out :
        IdentYear(RecIdent(out[j])) = y /\ IdentSlot(RecIdent(out[j])) = slot}}

YieldedOfYear(y) ==
    {RecIdent(out[i]) : i \in {j \in DOMAIN out : IdentYear(RecIdent(out[j])) = y}}

\* The upstream records the API returns for the call (y, slot).
Returned(y, slot) == {Ident(y, slot, idx) : idx \in 1 .. Count(y, slot)}

\* No upstream record is yielded twice.
NoRepeats == Cardinality({RecIdent(out[i]) : i \in DOMAIN out}) = Len(out)

FailedSlots(y) ==
    {log[i].slot : i \in {j \in DOMAIN log : log[j].year = y /\ log[j].exc # "none"}}

\* Every failure so far is a non-success status of a weekly /plays call.
OnlyWeeklyStatusFailures ==
    \A i \in DOMAIN log :
        log[i].exc # "none" => (log[i].exc = "HTTPError" /\ log[i].slot \in 1 .. 15)

\* The request of slot s of year y was issued.
Issued(y, s) ==
    \E i \in DOMAIN calls :
        /\ calls[i].endpoint = "/plays"
        /\ calls[i].year = y
        /\ IF s = 16
           THEN calls[i].seasonType = "postseason" /\ calls[i].week = 0
           ELSE calls[i].seasonType = "" /\ calls[i].week = s

\* C1: when weekly /plays calls of a set F of weeks fail with a non-success
\* status and every other call succeeds, plays_resource does not raise; for
\* every year it has gone through it has issued all 15 weekly calls and the
\* postseason call, and it has yielded exactly the records returned for the
\* weeks outside F and for the postseason.
C1_PlaysPartialFailureIsolation ==
    (resource = "plays" /\ has_key /\ OnlyWeeklyStatusFailures) =>
        /\ status # "raised"
        /\ NoRepeats
        /\ \A y \in start_year .. (year - 1) :
              /\ \A s \in 1 .. 16 : Issued(y, s)
              /\ YieldedOfYear(y) =
                    UNION {Returned(y, s) : s \in (1 .. 16) \ FailedSlots(y)}
              /\ \A w \in FailedSlots(y) : YieldedFrom(y, w) = {}

C1_Witness ==
    /\ resource = "plays" /\ has_key /\ OnlyWeeklyStatusFailures
    /\ status = "done"
    /\ start_year = 2020 /\ end_year = 2020
    /\ FailedSlots(2020) = {3, 11}
    /\ Returned(2020, 3) # {}
    /\ YieldedFrom(2020, 3) = {}
    /\ YieldedFrom(2020, 12) # {}
    /\ YieldedFrom(2020, 16) # {}
    /\ Len(calls) = 16

\* C2: when the call of games_resource or drives_resource for year y fails,
\* the generator raises there: it has yielded exactly the records of the
\* years before y, yields nothing of y or later and calls no later year.
C2_GamesDrivesFatalPropagation ==
    resource \in {"games", "drives"} =>
        \A i \in DOMAIN log :
            log[i].exc # "none" =>
                /\ i = Len(log)
                /\ status = "raised"
                /\ exc = log[i].exc
                /\ year = log[i].year
                /\ \A c \in DOMAIN calls : calls[c].year <= log[i].year
                /\ NoRepeats
                /\ {RecIdent(out[j]) : j \in DOMAIN out} =
                      UNION {Returned(z, 0) : z \in start_year .. (log[i].year - 1)}

C2_Witness ==
    /\ resource = "games" /\ has_key
    /\ start_year = 2020 /\ end_year = 2022
    /\ status = "raised"
    /\ Len(log) = 2 /\ log[2].year = 2021 /\ log[2].exc = "HTTPError"
    /\ Len(out) = 1
    /\ Len(calls) = 2

Tolerant == {"plays", "recruiting", "transfers"}

\* Nothing of a failed call's slice is yielded.
NothingFromFailedSlices ==
    \A i \in DOMAIN log : log[i].exc # "none" => YieldedFrom(log[i].year, log[i].slot) = {}

\* The loop position that follows the call (y, slot) of the running resource.
NextPosition(y, slot) ==
    IF resource = "plays"
    THEN IF slot = 16 THEN <<y + 1, 1>> ELSE <<y, slot + 1>>
    ELSE <<y + 1, 0>>

\* After log entry i the generator went on to the next iteration.
WentOn(i) ==
    IF i < Len(log)
    THEN <<log[i + 1].year, log[i + 1].slot>> = NextPosition(log[i].year, log[i].slot)
    ELSE /\ status # "raised"
         /\ year = NextPosition(log[i].year, log[i].slot)[1]
         /\ resource = "plays" => week = NextPosition(log[i].year, log[i].slot)[2]

C4_MissingCredentialFatal ==
    ~has_key =>
        /\ calls = <<>>
        /\ out = <<>>
        /\ Len(log) <= 1
        /\ Len(log) = 1 =>
              /\ status = "raised"
              /\ exc = "ValueError"
              /\ log[1].exc = "ValueError"
              /\ year = FirstYear(resource, start_year)
              /\ week = 1
        /\ status = "raised" => Len(log) = 1

C4_Witness ==
    /\ ~has_key
    /\ resource = "plays"
    /\ status = "raised"
    /\ exc = "ValueError"
    /\ calls = <<>>

\* C5: transfers_resource calls /player/portal for the years from
\* max(start_year, 2021) to end_year, each once, ascending, and for no other
\* year: the calls issued so far are a prefix of that list and, when the
\* generator is exhausted, the whole list.
C5_TransfersYearClamp ==
    resource = "transfers" =>
        LET lo == IF start_year > 2021 THEN start_year ELSE 2021
        IN  /\ \A i \in DOMAIN calls :
                  /\ calls[i].endpoint = "/player/portal"
                  /\ calls[i].year = lo + i - 1
                  /\ calls[i].year <= end_year
                  /\ calls[i].year >= 2021
            /\ (status = "done" /\ has_key) =>
                  Len(calls) = IF end_year >= lo THEN end_year - lo + 1 ELSE 0

C5_Witness ==
    /\ resource = "transfers" /\ has_key
    /\ start_year = 2020 /\ end_year = 2022
    /\ status = "done"
    /\ Len(calls) = 2
    /\ calls[1].year = 2021 /\ calls[2].year = 2022

\* Record a comes before record b: earlier year, or same year and earlier
\* week (the postseason after week 15), or same call and earlier in the
\* response.
Before(a, b) ==
    \/ IdentYear(a) < IdentYear(b)
    \/ /\ IdentYear(a) = IdentYear(b)
       /\ \/ IdentSlot(a) < IdentSlot(b)
          \/ IdentSlot(a) = IdentSlot(b) /\ IdentIdx(a) < IdentIdx(b)

\* C7: a generator yields in ascending order of year; plays_resource within
\* a year in ascending order of week, the postseason records after those of
\* every week and before the next year; within a response in upstream order.
C7_EmissionOrder ==
    resource \in Resources =>
        \A i \in 1 .. (Len(out) - 1) : Before(RecIdent(out[i]), RecIdent(out[i + 1]))

C7_Witness ==
    /\ resource = "plays" /\ has_key
    /\ start_year = 2020 /\ end_year = 2021
    /\ status = "done"
    /\ log[Len(log)].exc = "none"
    /\ \E i \in DOMAIN out : \E j \in DOMAIN out :
          /\ i < j
          /\ IdentYear(RecIdent(out[i])) = 2020 /\ IdentSlot(RecIdent(out[i])) = 16
          /\ IdentYear(RecIdent(out[j])) = 2021 /\ IdentSlot(RecIdent(out[j])) = 2
    /\ \E i \in DOMAIN out : IdentIdx(RecIdent(out[i])) = 2

\* ------------------------------------------------------------------------
\* Properties of the repeated games-only run (SpecResync)
\* ------------------------------------------------------------------------

RowIds(table) == {table[i]["id"] : i \in DOMAIN table}

Rows(table) == {table[i] : i \in DOMAIN table}

\* C8: after two complete runs of games_resource over identical upstream
\* data into the merge-by-id table, the table holds the rows the first run
\* left: the same ids, one row per id, every row equal.
C8_IdempotentResync ==
    (pass = 2 /\ status = "done") =>
        /\ RowIds(sink) = RowIds(first_sink)
        /\ Cardinality(RowIds(sink)) = Len(sink)
        /\ Len(sink) = Len(first_sink)
        /\ Rows(sink) = Rows(first_sink)

C8_Witness ==
    /\ pass = 2 /\ status = "done"
    /\ start_year = 2020 /\ end_year = 2022
    /\ Len(out) = 3
    /\ Len(sink) = 3
    /\ sink = first_sink

\* ------------------------------------------------------------------------
\* Properties of the run modes (SpecMode)
\* ------------------------------------------------------------------------

ResourcesOf(invocations) == [i \in DOMAIN invocations |-> invocations[i].resource]

====
